---- MODULE Spec2Model ----
(***************************************************************************)
(* Model of scripts/generate_wiki.py: the wiki synchronization run         *)
(* generate_wiki_pages(), its access guard check_repo_access(), the git    *)
(* wrappers run_command()/run_git_command(), the finalizer and the content *)
(* generator generate_wiki_content().                                      *)
(*                                                                         *)
(* One action per statement of generate_wiki_pages that talks to the       *)
(* outside world (file system, HTTP API, git).  The outcome of every       *)
(* external call (exit code, HTTP status, stderr) is an input drawn with   *)
(* \E, constrained only by what the modelled remote and working tree make  *)
(* possible.  Several runs follow one another on the same host and remote. *)
(*                                                                         *)
(* SpecContent follows one call of generate_wiki_content document by       *)
(* document, over issue and milestone records whose labels, milestone and  *)
(* title fields take the shapes the JSON files can hold.                   *)
(***************************************************************************)
EXTENDS Integers, Sequences, FiniteSets, TLC

VARIABLES
    pc,             \* position of the run inside generate_wiki_pages
    run,            \* number of the current run (1, 2, ...)
    data,           \* contents of data/issues.json and data/milestones.json
    dataChanged,    \* whether data differs from that of the previous run
    prevSuccess,    \* whether the previous run returned normally
    wikiDir,        \* the scratch directory wiki_content
    cwd,            \* process working directory: "orig" or "wiki"
    credFile,       \* whether ~/.git-credentials exists
    remote,         \* the remote wiki repository
    startRemote,    \* the remote as it was when the run started
    repo,           \* response of GET /repos/{repo} seen by the guard
    patched,        \* number of PATCH has_wiki calls made by the run
    is_new_wiki,    \* local of generate_wiki_pages (line 119)
    default_branch, \* local of generate_wiki_pages (line 142)
    statusOut,      \* stdout of git status --porcelain (line 157)
    success,        \* local flag of generate_wiki_pages (lines 68, 162)
    err,            \* exception in flight / leaving the function
    ops,            \* operations executed by the run, in order
    failedAt,       \* the operation whose failure raised, or "none"
    gen             \* one call of generate_wiki_content, record by record

vars == <<pc, run, data, dataChanged, prevSuccess, wikiDir, cwd, credFile,
          remote, startRemote, repo, patched, is_new_wiki, default_branch,
          statusOut, success, err, ops, failedAt, gen>>

\* Number of successive runs explored.
MaxRuns == 2

----------------------------------------------------------------------------
\* Input data (data/issues.json, data/milestones.json)

Issue(n, st) == [number |-> n, state |-> st]

EmptyData == [issues |-> <<>>, milestones |-> <<>>]
DataOne == [issues |-> <<Issue(1, "open")>>, milestones |-> <<>>]
DataTwo == [issues |-> <<Issue(2, "closed"), Issue(1, "open")>>,
            milestones |-> <<"v1">>]

DataSets == {EmptyData, DataOne, DataTwo}

----------------------------------------------------------------------------
\* Page contents

NoPages == [Home |-> "", Milestones |-> <<>>, Activos |-> <<>>, Cerrados |-> <<>>]
OldPages == [Home |-> "old", Milestones |-> <<>>, Activos |-> <<>>, Cerrados |-> <<>>]

PageNames == <<"Home", "Milestones", "Activos", "Cerrados">>

\* The four documents written by generate_wiki_content, in the order written.
Render(d) ==
    [Home |-> "nav",
     Milestones |-> d.milestones,
     Activos |-> SelectSeq(d.issues, LAMBDA i : i.state = "open"),
     Cerrados |-> SelectSeq(d.issues, LAMBDA i : i.state = "closed")]

\* The pages on disk after the first k documents were written over old.
WriteFirst(old, new, k) ==
    [f \in DOMAIN old |->
        IF \E j \in 1..k : PageNames[j] = f THEN new[f] ELSE old[f]]

\* generate_wiki_content's early return: False when both collections are falsy.
HasNoDataNever(d) == FALSE
HasNoData(d) == d.issues = <<>> /\ d.milestones = <<>>

----------------------------------------------------------------------------
\* Working tree and remote

EmptyContent == [pages |-> NoPages, junk |-> FALSE]
Commit(m, c) == [msg |-> m, content |-> c]

\* wiki_content: whether it exists, whether it is a git repository, whether
\* the remote "origin" is registered, the history of the checked-out branch,
\* the files on disk, the staged files, and the run that created it (0: none
\* of the modelled runs).
NoDir == [exists |-> FALSE, git |-> FALSE, origin |-> FALSE, head |-> <<>>,
          tree |-> EmptyContent, index |-> EmptyContent, owner |-> 0]
\* A directory left behind by something other than the modelled runs.
StaleJunk == [exists |-> TRUE, git |-> FALSE, origin |-> FALSE, head |-> <<>>,
              tree |-> [pages |-> NoPages, junk |-> TRUE],
              index |-> EmptyContent, owner |-> 0]

HeadContent(h) == IF h = <<>> THEN EmptyContent ELSE h[Len(h)].content

Branches == {"main", "master", "trunk"}

\* The remote wiki: whether it holds content, its default branch (HEAD) and
\* the history of each branch (<<>>: no such branch).
RemoteAbsent == [exists |-> FALSE, default |-> "none",
                 heads |-> [b \in Branches |-> <<>>]]
RemoteWith(b, p) ==
    [exists |-> TRUE, default |-> b,
     heads |-> [x \in Branches |->
                  IF x = b THEN <<Commit("previous", [pages |-> p, junk |-> FALSE])>>
                  ELSE <<>>]]

InitRemotes ==
    {RemoteAbsent, RemoteWith("main", Render(DataOne))} \cup
    {RemoteWith(b, OldPages) : b \in Branches}

NoRepo == [status |-> 0, push |-> FALSE, pull |-> FALSE, admin |-> FALSE,
           has_wiki |-> FALSE, asked |-> FALSE]

NoErr == [type |-> "none", msg |-> "none"]
WikiErr(m) == [type |-> "WikiGenerationError", msg |-> m]

----------------------------------------------------------------------------
\* The records of the JSON files in detail (used by SpecContent)

\* Largest issue list and milestone list explored.
MaxIssues == 2
MaxMilestones == 1

\* A JSON value: kind is "absent" (key missing or null), "str", "num",
\* "dict" (an object: text is its name or title member, NoKey when it has
\* none) or "list" (items are its elements).
NoKey == "<no key>"
PyVal(k, t, xs) == [kind |-> k, text |-> t, items |-> xs]
Absent == PyVal("absent", "", <<>>)
PyStr(t) == PyVal("str", t, <<>>)
PyNum(t) == PyVal("num", t, <<>>)
PyDict(t) == PyVal("dict", t, <<>>)
PyList(xs) == PyVal("list", "", xs)

\* bool(v); the numbers and objects of the model are non-zero and non-empty.
Truthy(v) ==
    CASE v.kind = "absent" -> FALSE
      [] v.kind = "str" -> v.text # ""
      [] v.kind = "list" -> v.items # <<>>
      [] OTHER -> TRUE

\* Shapes of an issue's labels field.
LabelShapes ==
    {Absent, PyList(<<>>), PyStr("bug"),
     PyList(<<PyStr("bug"), PyStr("ui")>>),
     PyList(<<PyDict("bug")>>),
     PyList(<<PyDict(NoKey)>>),
     PyList(<<PyStr("bug"), PyDict("ui")>>),
     PyNum("7")}

\* Shapes of an issue's milestone field, when present.
MilestoneShapes == {PyStr("v1"), PyDict("v1"), PyDict(NoKey), PyNum("7")}

IssueRec(n, st, l, m) == [number |-> n, state |-> st, labels |-> l, milestone |-> m]

IssueKinds ==
    {IssueRec(0, st, l, Absent) : st \in {"open", "closed"}, l \in LabelShapes} \cup
    {IssueRec(0, st, Absent, m) : st \in {"open", "closed"}, m \in MilestoneShapes}

\* Issue lists as the API returns them: newest (highest number) first.
IssueLists ==
    UNION {{[i \in 1..n |-> [k[i] EXCEPT !.number = n + 1 - i]] :
               k \in [1..n -> IssueKinds]} : n \in 0..MaxIssues}

MilestoneRec(t, st) == [title |-> t, state |-> st]
MilestoneKinds == {MilestoneRec("v1", "open"), MilestoneRec(NoKey, "open")}
MilestoneLists == UNION {[1..n -> MilestoneKinds] : n \in 0..MaxMilestones}

\* The four documents: not written, written up to an exception, or complete.
NoDoc == [status |-> "absent", entries |-> <<>>]
NoDocs == [Home |-> NoDoc, Milestones |-> NoDoc, Activos |-> NoDoc, Cerrados |-> NoDoc]
Doc(st, es) == [status |-> st, entries |-> es]

GenCall(i, m) ==
    [pc |-> "load", issues |-> i, milestones |-> m, docs |-> NoDocs,
     result |-> "none", raised |-> [type |-> "none", msg |-> "none"]]
GenIdle == [GenCall(<<>>, <<>>) EXCEPT !.pc = "idle"]

----------------------------------------------------------------------------
\* Pure helpers of the script

\* run_command: raises CalledProcessError when check and the exit code is not 0.
run_command(check, rc) ==
    IF check /\ rc # 0
    THEN [type |-> "CalledProcessError", msg |-> "non-zero exit status"]
    ELSE NoErr

\* run_git_command: the exception raised for an exit code and stderr, or NoErr.
run_git_command_unchecked(check, rc, stderr, error_msg) == NoErr
run_git_command(check, rc, stderr, error_msg) ==
    IF check /\ rc # 0
    THEN IF stderr = "Authentication failed"
         THEN WikiErr("Autenticacion Git fallida")
         ELSE IF stderr = "repository not found"
         THEN WikiErr("Repositorio wiki no encontrado")
         ELSE IF error_msg # ""
         THEN WikiErr(error_msg)
         ELSE WikiErr("Error en comando Git")
    ELSE NoErr

StderrKinds == {"Authentication failed", "repository not found", "other"}

\* verify_token: token is the value of GITHUB_TOKEN ("absent": not set).
verify_token(token) ==
    IF token = "absent" \/ token = ""
    THEN WikiErr("GITHUB_TOKEN no encontrado")
    ELSE IF token = " "
    THEN WikiErr("GITHUB_TOKEN esta vacio")
    ELSE NoErr

Tokens == {"absent", " ", "tok"}

\* get_default_branch: probeOk is whether ls-remote --symref produced output,
\* head the branch its HEAD line names.
get_default_branch(probeOk, head) ==
    IF probeOk /\ head = "master" THEN "master" ELSE "main"

\* HTTP outcomes of the API calls; NoResponse: the transport failed.
NoResponse == 0
HttpOk == 200
HttpStatuses == {HttpOk, 401, 403, 404, 500, NoResponse}

Response(st, pu, pl, ad, hw) ==
    [status |-> st, push |-> pu, pull |-> pl, admin |-> ad, has_wiki |-> hw,
     asked |-> TRUE]

Responses ==
    {Response(HttpOk, pu, pl, ad, hw) : pu \in BOOLEAN, pl \in BOOLEAN,
                                        ad \in BOOLEAN, hw \in BOOLEAN}
    \cup {Response(st, FALSE, FALSE, FALSE, FALSE) : st \in HttpStatuses \ {HttpOk}}

\* check_repo_access, lines 326-336: the permission checks on a 200 response.
check_permissions_no_push(r) ==
    IF ~r.pull
    THEN WikiErr("El token no tiene permisos de lectura")
    ELSE IF ~r.has_wiki /\ ~r.admin
    THEN WikiErr("La wiki esta deshabilitada")
    ELSE NoErr
check_permissions_no_pull(r) ==
    IF ~r.push
    THEN WikiErr("El token no tiene permisos de escritura")
    ELSE IF ~r.has_wiki /\ ~r.admin
    THEN WikiErr("La wiki esta deshabilitada")
    ELSE NoErr
check_permissions(r) ==
    IF ~r.push
    THEN WikiErr("El token no tiene permisos de escritura")
    ELSE IF ~r.pull
    THEN WikiErr("El token no tiene permisos de lectura")
    ELSE IF ~r.has_wiki /\ ~r.admin
    THEN WikiErr("La wiki esta deshabilitada")
    ELSE NoErr

\* check_repo_access: the exception it raises for a response, or NoErr.  With
\* no response, requests.get raises and the handler reads the unbound local
\* "response".
check_repo_access(r) ==
    IF r.status = NoResponse
    THEN [type |-> "UnboundLocalError", msg |-> "response"]
    ELSE IF r.status >= 400
    THEN IF r.status = 401 THEN WikiErr("Token invalido o expirado")
         ELSE IF r.status = 403 THEN WikiErr("Token sin permisos suficientes")
         ELSE IF r.status = 404 THEN WikiErr("Repositorio no encontrado")
         ELSE WikiErr("Error de API")
    ELSE check_permissions(r)

\* The except clauses of generate_wiki_pages: what leaves the try statement.
HandleException(e) ==
    IF e.type = "WikiGenerationError" THEN e
    ELSE IF e.type = "CalledProcessError"
    THEN WikiErr("Error en operacion Git")
    ELSE IF e.type = "RequestException"
    THEN WikiErr("Error en API de GitHub")
    ELSE WikiErr("Error inesperado")

\* safe_cleanup: the directory after rm -rf, which may fail (error swallowed).
safe_cleanup(dir, rmOk) ==
    IF dir.exists /\ rmOk THEN NoDir ELSE dir

\* The finalizer's condition for removing the scratch directory.
NeedsCleanupInverted(ok, dir) == ok /\ dir.exists
NeedsCleanup(ok, dir) == ~ok /\ dir.exists

\* is_new_wiki = clone_result.returncode != 0
IsNewWikiInverted(rc) == rc = 0
IsNewWiki(rc) == rc # 0

\* git status --porcelain after git add: empty iff nothing differs from HEAD.
status_porcelain_always(dir) == "M"
status_porcelain(dir) ==
    IF dir.index = HeadContent(dir.head) /\ dir.tree = dir.index THEN "" ELSE "M"

----------------------------------------------------------------------------
\* The run

runInputs == <<run, data, dataChanged, prevSuccess, startRemote, gen>>
hostState == <<wikiDir, cwd, credFile, remote>>
locals == <<repo, patched, is_new_wiki, default_branch, statusOut, success>>

\* The log of executed operations: each with its outcome (0: it succeeded).
Log(op, rc) == ops' = Append(ops, [op |-> op, rc |-> rc])

\* An exception raised inside the try body: the except clauses convert it
\* and control passes to the finally block.
Raise(e, op) ==
    /\ err' = HandleException(e)
    /\ failedAt' = op
    /\ pc' = "finally_chdir"

Continue(next) ==
    /\ pc' = next
    /\ UNCHANGED <<err, failedAt>>

Step(e, op, next) == IF e # NoErr THEN Raise(e, op) ELSE Continue(next)

Init ==
    /\ pc = "start"
    /\ run = 1
    /\ data \in DataSets
    /\ dataChanged = FALSE
    /\ prevSuccess = FALSE
    /\ wikiDir \in {NoDir, StaleJunk}
    /\ cwd = "orig"
    /\ credFile \in BOOLEAN
    /\ remote \in InitRemotes
    /\ startRemote = remote
    /\ repo = NoRepo
    /\ patched = 0
    /\ is_new_wiki = FALSE
    /\ default_branch = "none"
    /\ statusOut = ""
    /\ success = FALSE
    /\ err = NoErr
    /\ ops = <<>>
    /\ failedAt = "none"
    /\ gen = GenIdle

\* Lines 70-72: the data directory check, outside the try statement.
CheckDataDir ==
    /\ pc = "start"
    /\ \E dataDirExists \in BOOLEAN :
         IF dataDirExists
         THEN /\ Continue("verify_token")
              /\ Log("check_data_dir", 0)
         ELSE /\ err' = WikiErr("Directorio de datos no encontrado")
              /\ failedAt' = "check_data_dir"
              /\ pc' = "done"
              /\ Log("check_data_dir", 1)
    /\ UNCHANGED <<runInputs, hostState, locals>>

\* Line 75
VerifyToken ==
    /\ pc = "verify_token"
    /\ \E token \in Tokens :
         /\ Step(verify_token(token), "verify_token", "clean_stale")
         /\ Log("verify_token", IF token = "tok" THEN 0 ELSE 1)
    /\ UNCHANGED <<runInputs, hostState, locals>>

\* Lines 76-78
CleanStale ==
    /\ pc = "clean_stale"
    /\ IF wikiDir.exists
       THEN \E rmOk \in BOOLEAN :
              /\ wikiDir' = safe_cleanup(wikiDir, rmOk)
              /\ Log("rm_stale", IF rmOk THEN 0 ELSE 1)
       ELSE UNCHANGED <<wikiDir, ops>>
    /\ Continue("read_repo")
    /\ UNCHANGED <<runInputs, cwd, credFile, remote, locals>>

\* Line 81: os.environ['GITHUB_REPOSITORY'] raises KeyError when unset.
ReadRepoEnv ==
    /\ pc = "read_repo"
    /\ \E isSet \in BOOLEAN :
         Step(IF isSet THEN NoErr ELSE [type |-> "KeyError", msg |-> "GITHUB_REPOSITORY"],
              "read_repo", "check_access")
    /\ UNCHANGED <<runInputs, hostState, locals, ops>>

\* Line 91
CheckRepoAccess ==
    /\ pc = "check_access"
    /\ \E r \in Responses :
         /\ repo' = r
         /\ Step(check_repo_access(r), "api_get", "enable_wiki")
         /\ Log("api_get", IF r.status = HttpOk THEN 0 ELSE 1)
    /\ UNCHANGED <<runInputs, hostState, patched, is_new_wiki, default_branch,
                   statusOut, success>>

\* Lines 93-98
EnableWiki ==
    /\ pc = "enable_wiki"
    /\ IF ~repo.has_wiki
       THEN /\ patched' = patched + 1
            /\ \E st \in {HttpOk, 403, NoResponse} :
                 /\ Step(IF st = NoResponse
                         THEN [type |-> "RequestException", msg |-> "transport"]
                         ELSE IF st # HttpOk
                         THEN WikiErr("Error habilitando wiki")
                         ELSE NoErr,
                         "api_patch", "git_config")
                 /\ Log("api_patch", IF st = HttpOk THEN 0 ELSE 1)
       ELSE /\ Continue("git_config")
            /\ UNCHANGED <<patched, ops>>
    /\ UNCHANGED <<runInputs, hostState, repo, is_new_wiki, default_branch,
                   statusOut, success>>

\* Lines 104-106: two run_command calls with check=True.
GitConfig ==
    /\ pc = "git_config"
    /\ \E rc1 \in {0, 1}, rc2 \in {0, 1} :
         /\ rc1 # 0 => rc2 = 0
         /\ Step(IF run_command(TRUE, rc1) # NoErr
                 THEN run_command(TRUE, rc1) ELSE run_command(TRUE, rc2),
                 "git_config", "ls_remote")
         /\ Log("git_config", IF rc1 # 0 THEN rc1 ELSE rc2)
    /\ UNCHANGED <<runInputs, hostState, locals>>

\* The commands that talk to the remote; only they can report an
\* authentication failure or a missing repository on stderr.
RemoteCommands == {"ls_remote", "clone", "pull", "push", "push_force"}

\* A git command run through run_git_command with check=True: its exit code
\* and stderr are inputs; mayPass says whether it can succeed at all.
GitOutcome(op, error_msg, next, mayPass) ==
    \E rc \in {0, 1}, stderr \in StderrKinds :
        /\ rc = 0 => mayPass /\ stderr = "other"
        /\ op \notin RemoteCommands => stderr = "other"
        /\ Step(run_git_command(TRUE, rc, stderr, error_msg), op, next)
        /\ Log(op, rc)

\* Whether the command just logged exited with 0.
Passed == ops'[Len(ops')].rc = 0

\* Lines 108-111
LsRemote ==
    /\ pc = "ls_remote"
    /\ GitOutcome("ls_remote", "No se puede acceder al repositorio wiki", "clone", TRUE)
    /\ UNCHANGED <<runInputs, hostState, locals>>

\* The working tree a successful clone leaves.
Cloned(r, n) ==
    [exists |-> TRUE, git |-> TRUE, origin |-> TRUE, head |-> r.heads[r.default],
     tree |-> HeadContent(r.heads[r.default]),
     index |-> HeadContent(r.heads[r.default]), owner |-> n]

\* Lines 113-119: clone with check=False; it can succeed only when the remote
\* holds content and the destination does not exist.
Clone ==
    /\ pc = "clone"
    /\ \E rc \in {0, 1} :
         /\ rc = 0 => remote.exists /\ ~wikiDir.exists
         /\ wikiDir' = IF rc = 0 THEN Cloned(remote, run) ELSE wikiDir
         /\ is_new_wiki' = IsNewWiki(rc)
         /\ Step(run_git_command(FALSE, rc, "other", "Error clonando repositorio wiki"),
                 "clone", IF is_new_wiki' THEN "mkdir" ELSE "resolve_branch")
         /\ Log("clone", rc)
    /\ UNCHANGED <<runInputs, cwd, credFile, remote, repo, patched,
                   default_branch, statusOut, success>>

\* Lines 121-124: mkdir(exist_ok=True) and chdir; a failure raises OSError.
MkdirChdir ==
    /\ pc = "mkdir"
    /\ \E ok \in BOOLEAN :
         IF ok
         THEN /\ wikiDir' = IF wikiDir.exists THEN wikiDir
                             ELSE [NoDir EXCEPT !.exists = TRUE, !.owner = run]
              /\ cwd' = "wiki"
              /\ Continue("git_init")
              /\ Log("mkdir", 0)
         ELSE /\ Raise([type |-> "OSError", msg |-> "mkdir"], "mkdir")
              /\ Log("mkdir", 1)
              /\ UNCHANGED <<wikiDir, cwd>>
    /\ UNCHANGED <<runInputs, credFile, remote, locals>>

\* Lines 125-126
GitInit ==
    /\ pc = "git_init"
    /\ GitOutcome("git_init", "Error inicializando repositorio", "remote_add", TRUE)
    /\ wikiDir' = IF Passed THEN [wikiDir EXCEPT !.git = TRUE] ELSE wikiDir
    /\ UNCHANGED <<runInputs, cwd, credFile, remote, locals>>

\* Lines 127-128: git refuses to add a remote name that is already registered.
RemoteAdd ==
    /\ pc = "remote_add"
    /\ GitOutcome("remote_add", "Error configurando remote", "generate_new",
                  ~wikiDir.origin)
    /\ wikiDir' = IF Passed THEN [wikiDir EXCEPT !.origin = TRUE] ELSE wikiDir
    /\ UNCHANGED <<runInputs, cwd, credFile, remote, locals>>

\* generate_wiki_content (lines 188-292) and its call sites (131-132, 152-153).
\* files: the state of the two JSON files; k: how many of the four documents
\* are written before an IOError (4: none).  A False result makes the caller
\* raise.
GenerateContent(site, next, failMsg) ==
    /\ pc = site
    /\ \E files \in {"ok", "missing", "malformed"}, k \in 0..4 :
         IF files # "ok"
         THEN /\ k = 4
              /\ Raise(WikiErr(IF files = "missing" THEN "Archivo no encontrado"
                               ELSE "Error decodificando"), site)
              /\ Log("read_json", 1)
              /\ UNCHANGED wikiDir
         ELSE IF HasNoData(data)
         THEN /\ k = 4
              /\ Raise(WikiErr(failMsg), site)
              /\ Log("generate_empty", 1)
              /\ UNCHANGED wikiDir
         ELSE /\ wikiDir' = [wikiDir EXCEPT
                               !.tree.pages = WriteFirst(@, Render(data), k)]
              /\ Log("write_files", IF k = 4 THEN 0 ELSE 1)
              /\ IF k = 4 THEN Continue(next) ELSE Raise(WikiErr(failMsg), site)
    /\ UNCHANGED <<runInputs, cwd, credFile, remote, locals>>

GenerateNew ==
    GenerateContent("generate_new", "add_new", "No se pudo generar el contenido inicial")

\* git add . : on success the index holds what is on disk.
GitAdd(site, next) ==
    /\ pc = site
    /\ GitOutcome(site, "", next, TRUE)
    /\ wikiDir' = IF Passed THEN [wikiDir EXCEPT !.index = wikiDir.tree] ELSE wikiDir
    /\ UNCHANGED <<runInputs, cwd, credFile, remote, locals>>

\* git commit -m msg : fails when nothing is staged against HEAD.
GitCommit(site, next, msg) ==
    /\ pc = site
    /\ GitOutcome(site, "", next, wikiDir.index # HeadContent(wikiDir.head))
    /\ wikiDir' = IF Passed
                  THEN [wikiDir EXCEPT !.head = Append(@, Commit(msg, wikiDir.index))]
                  ELSE wikiDir
    /\ UNCHANGED <<runInputs, cwd, credFile, remote, locals>>

\* Line 134
AddNew == GitAdd("add_new", "commit_new")

\* Line 135
CommitNew == GitCommit("commit_new", "branch_main", "Initial wiki content")

\* Line 136
BranchMain ==
    /\ pc = "branch_main"
    /\ GitOutcome("branch_main", "", "push_force", TRUE)
    /\ UNCHANGED <<runInputs, hostState, locals>>

\* A push that always lands on main, whatever branch was named.
PushedToMain(r, b, h) ==
    [exists |-> TRUE,
     default |-> IF r.exists THEN r.default ELSE "main",
     heads |-> [r.heads EXCEPT !["main"] = h]]

\* The remote after branch b was set to history h (a forced push replaces
\* whatever the branch held).
Pushed(r, b, h) ==
    [exists |-> TRUE,
     default |-> IF r.exists THEN r.default ELSE b,
     heads |-> [r.heads EXCEPT ![b] = h]]

\* Line 137: git push --force origin main
PushForce ==
    /\ pc = "push_force"
    /\ GitOutcome("push_force", "", "mark_success", TRUE)
    /\ remote' = IF Passed THEN Pushed(remote, "main", wikiDir.head) ELSE remote
    /\ UNCHANGED <<runInputs, wikiDir, cwd, credFile, locals>>

\* Lines 140-143: chdir into the clone and resolve the default branch.  The
\* symbolic-ref probe either fails or names the remote's default branch.
ResolveBranch ==
    /\ pc = "resolve_branch"
    /\ cwd' = "wiki"
    /\ \E probeOk \in BOOLEAN :
         /\ default_branch' = get_default_branch(probeOk, remote.default)
         /\ Log("resolve_branch", IF probeOk THEN 0 ELSE 1)
    /\ Continue("checkout")
    /\ UNCHANGED <<runInputs, wikiDir, credFile, remote, repo, patched,
                   is_new_wiki, statusOut, success>>

\* Lines 145-147: checkout succeeds only for a branch the remote has.
Checkout ==
    /\ pc = "checkout"
    /\ GitOutcome("checkout", "Error cambiando a rama por defecto", "pull",
                  remote.heads[default_branch] # <<>>)
    /\ wikiDir' = IF Passed
                  THEN [wikiDir EXCEPT !.head = remote.heads[default_branch],
                                       !.tree = HeadContent(remote.heads[default_branch]),
                                       !.index = HeadContent(remote.heads[default_branch])]
                  ELSE wikiDir
    /\ UNCHANGED <<runInputs, cwd, credFile, remote, locals>>

\* Lines 149-150
Pull ==
    /\ pc = "pull"
    /\ GitOutcome("pull", "Error actualizando rama", "generate_existing", TRUE)
    /\ UNCHANGED <<runInputs, hostState, locals>>

\* Lines 152-153
GenerateExisting ==
    GenerateContent("generate_existing", "add_existing", "No se pudo generar el contenido")

\* Line 156
AddExisting == GitAdd("add_existing", "status")

\* Lines 157-158
Status ==
    /\ pc = "status"
    /\ \E rc \in {0, 1} :
         /\ statusOut' = IF rc = 0 THEN status_porcelain(wikiDir) ELSE ""
         /\ Step(run_git_command(TRUE, rc, "other", ""), "status",
                 IF statusOut' # "" THEN "commit_existing" ELSE "mark_success")
         /\ Log("status", rc)
    /\ UNCHANGED <<runInputs, hostState, repo, patched, is_new_wiki,
                   default_branch, success>>

\* Line 159
CommitExisting == GitCommit("commit_existing", "push", "Update wiki content")

\* Line 160: git push origin default_branch
Push ==
    /\ pc = "push"
    /\ GitOutcome("push", "", "mark_success", TRUE)
    /\ remote' = IF Passed THEN Pushed(remote, default_branch, wikiDir.head) ELSE remote
    /\ UNCHANGED <<runInputs, wikiDir, cwd, credFile, locals>>

\* Line 162
MarkSuccess ==
    /\ pc = "mark_success"
    /\ success' = TRUE
    /\ pc' = "finally_chdir"
    /\ UNCHANGED <<runInputs, hostState, repo, patched, is_new_wiki,
                   default_branch, statusOut, err, ops, failedAt>>

\* A finalizer that leaves the working directory where the run put it.
FinallyNoChdir ==
    /\ pc = "finally_chdir"
    /\ pc' = "finally_cleanup"
    /\ UNCHANGED <<runInputs, hostState, locals, err, ops, failedAt>>

\* Lines 175-178
FinallyChdir ==
    /\ pc = "finally_chdir"
    /\ cwd' = "orig"
    /\ pc' = "finally_cleanup"
    /\ UNCHANGED <<runInputs, wikiDir, credFile, remote, locals, err, ops, failedAt>>

\* Lines 180-182
FinallyCleanup ==
    /\ pc = "finally_cleanup"
    /\ IF NeedsCleanup(success, wikiDir)
       THEN \E rmOk \in BOOLEAN :
              /\ wikiDir' = safe_cleanup(wikiDir, rmOk)
              /\ Log("rm_final", IF rmOk THEN 0 ELSE 1)
       ELSE UNCHANGED <<wikiDir, ops>>
    /\ pc' = "finally_credentials"
    /\ UNCHANGED <<runInputs, cwd, credFile, remote, locals, err, failedAt>>

\* Lines 184-186: os.remove may raise OSError, which then leaves the function
\* in place of whatever was in flight.
FinallyCredentials ==
    /\ pc = "finally_credentials"
    /\ IF credFile
       THEN \E ok \in BOOLEAN :
              IF ok
              THEN /\ credFile' = FALSE
                   /\ Log("rm_credentials", 0)
                   /\ UNCHANGED <<err, failedAt>>
              ELSE /\ err' = [type |-> "OSError", msg |-> "remove"]
                   /\ failedAt' = "rm_credentials"
                   /\ Log("rm_credentials", 1)
                   /\ UNCHANGED credFile
       ELSE UNCHANGED <<credFile, err, failedAt, ops>>
    /\ pc' = "done"
    /\ UNCHANGED <<runInputs, wikiDir, cwd, remote, locals>>

\* Lines 349-350: the script is run again on the same host, with the same or
\* different data, against the remote as the previous run left it.
NextRun ==
    /\ pc = "done"
    /\ run < MaxRuns
    /\ run' = run + 1
    /\ data' \in DataSets
    /\ dataChanged' = (data' # data)
    /\ prevSuccess' = (err = NoErr)
    /\ startRemote' = remote
    /\ pc' = "start"
    /\ repo' = NoRepo
    /\ patched' = 0
    /\ is_new_wiki' = FALSE
    /\ default_branch' = "none"
    /\ statusOut' = ""
    /\ success' = FALSE
    /\ err' = NoErr
    /\ ops' = <<>>
    /\ failedAt' = "none"
    /\ UNCHANGED <<hostState, gen>>

Next ==
    \/ CheckDataDir
    \/ VerifyToken
    \/ CleanStale
    \/ ReadRepoEnv
    \/ CheckRepoAccess
    \/ EnableWiki
    \/ GitConfig
    \/ LsRemote
    \/ Clone
    \/ MkdirChdir
    \/ GitInit
    \/ RemoteAdd
    \/ GenerateNew
    \/ AddNew
    \/ CommitNew
    \/ BranchMain
    \/ PushForce
    \/ ResolveBranch
    \/ Checkout
    \/ Pull
    \/ GenerateExisting
    \/ AddExisting
    \/ Status
    \/ CommitExisting
    \/ Push
    \/ MarkSuccess
    \/ FinallyChdir
    \/ FinallyCleanup
    \/ FinallyCredentials
    \/ NextRun

Spec == Init /\ [][Next]_vars

----------------------------------------------------------------------------
\* generate_wiki_content record by record (lines 188-292)

\* A normalization that returns every list as it is.
format_labels_as_is(labels_data) ==
    IF ~Truthy(labels_data) THEN <<>>
    ELSE IF labels_data.kind = "list" THEN labels_data.items
    ELSE IF labels_data.kind = "str" THEN <<labels_data>>
    ELSE <<>>

\* Lines 230-243
format_labels(labels_data) ==
    IF ~Truthy(labels_data) THEN <<>>
    ELSE IF labels_data.kind = "list"
    THEN IF \A i \in DOMAIN labels_data.items : labels_data.items[i].kind = "dict"
         THEN [i \in DOMAIN labels_data.items |->
                 PyStr(IF labels_data.items[i].text = NoKey THEN ""
                       ELSE labels_data.items[i].text)]
         ELSE labels_data.items
    ELSE IF labels_data.kind = "str" THEN <<labels_data>>
    ELSE <<>>

\* Lines 253-259 and 275-281: the title shown for the issue's milestone.
milestone_title(m) ==
    IF m.kind = "dict"
    THEN IF m.text = NoKey THEN "Sin titulo" ELSE m.text
    ELSE m.text

\* Lines 245 and 267
active_issues(issues) == SelectSeq(issues, LAMBDA i : i.state = "open")
\* A closed page that lists every issue.
closed_issues_all(issues) == issues
closed_issues(issues) == SelectSeq(issues, LAMBDA i : i.state = "closed")

\* Lines 250-264 and 271-287: one issue written to its page.  The heading
\* and the milestone line are written before ', '.join(labels), which raises
\* TypeError when an element of labels is not a string.
WriteIssue(issue) ==
    LET labels == IF Truthy(issue.labels) THEN format_labels(issue.labels) ELSE <<>>
        joinable == \A i \in DOMAIN labels : labels[i].kind = "str"
    IN  [raised |-> IF joinable THEN NoErr
                    ELSE [type |-> "TypeError", msg |-> "join"],
         entry |-> [number |-> issue.number,
                    milestone |-> IF Truthy(issue.milestone)
                                  THEN milestone_title(issue.milestone) ELSE "",
                    labels |-> IF joinable
                               THEN [i \in DOMAIN labels |-> labels[i].text]
                               ELSE <<>>,
                    complete |-> joinable]]

\* The for loops at lines 249 and 270: entries are written until one raises.
RECURSIVE WriteIssues(_)
WriteIssues(list) ==
    IF list = <<>> THEN [entries |-> <<>>, raised |-> NoErr]
    ELSE LET w == WriteIssue(Head(list))
         IN  IF w.raised # NoErr
             THEN [entries |-> <<w.entry>>, raised |-> w.raised]
             ELSE LET rest == WriteIssues(Tail(list))
                  IN  [entries |-> <<w.entry>> \o rest.entries,
                       raised |-> rest.raised]

\* The for loop at lines 220-227: ms['title'] raises KeyError before
\* anything of that milestone is written.
RECURSIVE WriteMilestones(_)
WriteMilestones(list) ==
    IF list = <<>> THEN [entries |-> <<>>, raised |-> NoErr]
    ELSE IF Head(list).title = NoKey
    THEN [entries |-> <<>>, raised |-> [type |-> "KeyError", msg |-> "title"]]
    ELSE LET rest == WriteMilestones(Tail(list))
         IN  [entries |-> <<Head(list)>> \o rest.entries, raised |-> rest.raised]

callerState == <<pc, run, data, dataChanged, prevSuccess, startRemote,
                 hostState, locals, ops>>

\* The call ends: it returned True, returned False (the caller raises, lines
\* 152-153) or an exception left it (converted at lines 164-174).
GenEnd(result, e, docs) ==
    /\ gen' = [gen EXCEPT !.pc = "returned", !.result = result, !.raised = e,
                          !.docs = docs]
    /\ IF result = "True" THEN UNCHANGED <<err, failedAt>>
       ELSE /\ err' = IF result = "False"
                      THEN WikiErr("No se pudo generar el contenido")
                      ELSE HandleException(e)
            /\ failedAt' = pc

GenGoOn(next, docs) ==
    /\ gen' = [gen EXCEPT !.pc = next, !.docs = docs]
    /\ UNCHANGED <<err, failedAt>>

\* Lines 195-200: both files are read; no data at all returns False.
GenLoad ==
    /\ gen.pc = "load"
    /\ \E files \in {"ok", "missing", "malformed"} :
         IF files # "ok"
         THEN GenEnd("raised", WikiErr(IF files = "missing" THEN "Archivo no encontrado"
                                       ELSE "Error decodificando"), gen.docs)
         ELSE IF gen.issues = <<>> /\ gen.milestones = <<>>
         THEN GenEnd("False", NoErr, gen.docs)
         ELSE GenGoOn("home", gen.docs)
    /\ UNCHANGED callerState

\* Lines 205-215: Home.md; an IOError returns False (lines 290-292).
GenHome ==
    /\ gen.pc = "home"
    /\ \E opened \in BOOLEAN :
         IF opened
         THEN GenGoOn("milestones", [gen.docs EXCEPT !.Home = Doc("complete", <<"nav">>)])
         ELSE GenEnd("False", NoErr, gen.docs)
    /\ UNCHANGED callerState

\* Lines 218-227: Milestones.md
GenMilestones ==
    /\ gen.pc = "milestones"
    /\ \E opened \in BOOLEAN :
         IF ~opened THEN GenEnd("False", NoErr, gen.docs)
         ELSE LET w == WriteMilestones(gen.milestones)
              IN  IF w.raised # NoErr
                  THEN GenEnd("raised", w.raised,
                              [gen.docs EXCEPT !.Milestones = Doc("partial", w.entries)])
                  ELSE GenGoOn("activos",
                              [gen.docs EXCEPT !.Milestones = Doc("complete", w.entries)])
    /\ UNCHANGED callerState

\* Lines 245-264: Issues-Activos.md
GenActivos ==
    /\ gen.pc = "activos"
    /\ \E opened \in BOOLEAN :
         IF ~opened THEN GenEnd("False", NoErr, gen.docs)
         ELSE LET w == WriteIssues(active_issues(gen.issues))
              IN  IF w.raised # NoErr
                  THEN GenEnd("raised", w.raised,
                              [gen.docs EXCEPT !.Activos = Doc("partial", w.entries)])
                  ELSE GenGoOn("cerrados",
                              [gen.docs EXCEPT !.Activos = Doc("complete", w.entries)])
    /\ UNCHANGED callerState

\* Lines 266-289: Issues-Cerrados.md, then return True.
GenCerrados ==
    /\ gen.pc = "cerrados"
    /\ \E opened \in BOOLEAN :
         IF ~opened THEN GenEnd("False", NoErr, gen.docs)
         ELSE LET w == WriteIssues(closed_issues(gen.issues))
              IN  IF w.raised # NoErr
                  THEN GenEnd("raised", w.raised,
                              [gen.docs EXCEPT !.Cerrados = Doc("partial", w.entries)])
                  ELSE GenEnd("True", NoErr,
                              [gen.docs EXCEPT !.Cerrados = Doc("complete", w.entries)])
    /\ UNCHANGED callerState

\* The call at lines 152-153, in a run that cloned an existing wiki.
InitContent ==
    /\ pc = "generate_existing"
    /\ run = 1
    /\ data = DataOne
    /\ dataChanged = FALSE
    /\ prevSuccess = FALSE
    /\ remote = RemoteWith("main", OldPages)
    /\ startRemote = remote
    /\ wikiDir = Cloned(remote, 1)
    /\ cwd = "wiki"
    /\ credFile = FALSE
    /\ repo = Response(HttpOk, TRUE, TRUE, FALSE, TRUE)
    /\ patched = 0
    /\ is_new_wiki = FALSE
    /\ default_branch = "main"
    /\ statusOut = ""
    /\ success = FALSE
    /\ err = NoErr
    /\ ops = <<>>
    /\ failedAt = "none"
    /\ gen \in {GenCall(i, m) : i \in IssueLists, m \in MilestoneLists}

NextContent ==
    \/ GenLoad
    \/ GenHome
    \/ GenMilestones
    \/ GenActivos
    \/ GenCerrados

SpecContent == InitContent /\ [][NextContent]_vars

----------------------------------------------------------------------------
\* Vocabulary of the properties

Did(op) == \E i \in DOMAIN ops : ops[i].op = op
Succeeded(op) == \E i \in DOMAIN ops : ops[i].op = op /\ ops[i].rc = 0
Failed(op) == \E i \in DOMAIN ops : ops[i].op = op /\ ops[i].rc # 0
Before(a, b) == \E i, j \in DOMAIN ops : i < j /\ ops[i].op = a /\ ops[j].op = b
Times(op) == Cardinality({i \in DOMAIN ops : ops[i].op = op})

IsPrefix(s, t) == Len(s) <= Len(t) /\ SubSeq(t, 1, Len(s)) = s

Done == pc = "done"
Returned == Done /\ err = NoErr

\* What the access guard must refuse, read off the response the run received
\* and the outcome of the enable call.
GuardMustFail ==
    /\ repo.asked
    /\ \/ repo.status # HttpOk
       \/ ~repo.push
       \/ ~repo.pull
       \/ ~repo.has_wiki /\ ~repo.admin
       \/ Failed("api_patch")

\* Operations that create, enter, initialize or write the scratch directory.
WorkspaceBuildOps ==
    {"clone", "mkdir", "git_init", "remote_add", "write_files", "generate_empty",
     "add_new", "commit_new", "branch_main", "push_force", "resolve_branch",
     "checkout", "pull", "add_existing", "status", "commit_existing", "push"}

\* Operations that remove the scratch directory.
WorkspaceRemoveOps == {"rm_stale", "rm_final"}

\* Git commands addressed to the remote.
RemoteGitOps == {"ls_remote", "clone", "checkout", "pull", "push", "push_force"}

----------------------------------------------------------------------------
\* C1 (as stated): whenever the access guard fails, the run is failing and has
\* performed no workspace operation at all: wiki_content was not created,
\* cloned into, initialized or otherwise touched (removal included).
C1_NoWorkspaceOperation ==
    GuardMustFail =>
        /\ err # NoErr
        /\ \A i \in DOMAIN ops :
             ops[i].op \notin WorkspaceBuildOps \cup WorkspaceRemoveOps

\* C1 (amended): whenever the access guard fails, the run is failing and has
\* not created, entered, cloned into, initialized or written wiki_content; the
\* only workspace operation it may have performed is the removal of a
\* wiki_content directory left over from before the run.
C1_GuardFailureBuildsNoWorkspace ==
    GuardMustFail =>
        /\ err # NoErr
        /\ ~success
        /\ pc \in {"finally_chdir", "finally_cleanup", "finally_credentials", "done"}
        /\ \A i \in DOMAIN ops : ops[i].op \notin WorkspaceBuildOps
        /\ ~(wikiDir.exists /\ wikiDir.owner = run)
        /\ cwd = "orig"
        /\ remote = startRemote

\* A run refused for permissions.push = false has terminated.
C1_Witness ==
    /\ Done
    /\ repo.asked /\ repo.status = HttpOk /\ ~repo.push /\ repo.pull /\ repo.has_wiki
    /\ err # NoErr
    /\ Succeeded("rm_stale")

----------------------------------------------------------------------------
\* C2 (as stated): when a run returns or raises, the wiki_content directory
\* created by this run no longer exists.
C2_WorkspaceReleasedOnEveryExit ==
    Done => ~(wikiDir.exists /\ wikiDir.owner = run)

\* C2 (amended): a run whose try body failed leaves no wiki_content directory
\* behind unless the finalizer's removal command itself failed; a run whose
\* try body succeeded does not remove wiki_content, which still exists when
\* the function returns.
C2_WorkspaceReleasedOnFailureOnly ==
    Done /\ Did("verify_token") =>
        /\ ~success /\ ~Failed("rm_final") => ~wikiDir.exists
        /\ success => wikiDir.exists /\ ~Did("rm_final")

\* A failing run that had written files into a directory it created and
\* removed it in the finalizer.
C2_Witness ==
    /\ Done
    /\ ~success
    /\ Did("write_files")
    /\ Succeeded("mkdir")
    /\ Succeeded("rm_final")
    /\ ~wikiDir.exists

----------------------------------------------------------------------------
\* C3: credential teardown is executed on every termination of the run: a run
\* never terminates with ~/.git-credentials present and its removal not
\* attempted, also when the data directory is missing or the token absent.
C3_CredentialTeardownOnEveryExit ==
    Done /\ credFile => Did("rm_credentials")

----------------------------------------------------------------------------
\* C4: the run never loses remote content: a forced push is never executed
\* against a remote that held content when the run started, and every branch
\* keeps the history it had when the run started as a prefix of its history.
C4_NoForcedPushOverContent ==
    /\ Succeeded("push_force") => ~startRemote.exists
    /\ \A b \in Branches : IsPrefix(startRemote.heads[b], remote.heads[b])

----------------------------------------------------------------------------
\* The content generator was called with both collections empty (both JSON
\* files were readable).
GeneratorRanOnEmptyData ==
    data = EmptyData /\ (Did("generate_empty") \/ Did("write_files"))

NothingPublished ==
    /\ ~Did("write_files")
    /\ ~Did("add_new") /\ ~Did("add_existing")
    /\ ~Did("commit_new") /\ ~Did("commit_existing")
    /\ ~Did("push_force") /\ ~Did("push")
    /\ remote = startRemote

\* C5 (as stated): when the generator signals "nothing to publish" the run
\* ends as a success, and no file is written, nothing is staged, committed or
\* pushed, on both paths.
C5_EmptyDataEndsInSuccess ==
    GeneratorRanOnEmptyData =>
        /\ NothingPublished
        /\ Done => err = NoErr

\* C5 (amended): when the generator signals "nothing to publish" the run ends
\* in failure (the caller raises WikiGenerationError), never as a success; no
\* file is written and nothing is staged, committed or pushed, on both paths.
C5_EmptyDataEndsInFailure ==
    GeneratorRanOnEmptyData =>
        /\ NothingPublished
        /\ ~success
        /\ err # NoErr
        /\ failedAt \in {"generate_new", "generate_existing", "rm_credentials"}
        /\ failedAt # "rm_credentials" =>
             err \in {WikiErr("No se pudo generar el contenido inicial"),
                      WikiErr("No se pudo generar el contenido")}

\* A run on the existing-store path that was given empty data has terminated.
C5_Witness ==
    /\ Done
    /\ data = EmptyData
    /\ Did("generate_empty")
    /\ Succeeded("pull")

----------------------------------------------------------------------------
\* C6 (as stated): on every path a commit is attempted only after the staged
\* tree was inspected and found dirty, and an empty dirty-status ends the run
\* as a success with no commit and no push.
C6_StatusGateOnEveryPath ==
    /\ Did("commit_new") \/ Did("commit_existing") =>
         Succeeded("status") /\ statusOut # ""
    /\ Succeeded("status") /\ statusOut = "" =>
         ~Did("commit_existing") /\ ~Did("push")

\* C6 (amended): on the existing-store path the run stages all changes and
\* inspects the dirty-status; commit and push happen only if it is non-empty
\* (the staged tree differs from HEAD), and an empty dirty-status ends the try
\* body as a success with no commit and no push.  On the new-store path the
\* run stages and commits unconditionally, without inspecting the status.
C6_StatusGateOnExistingPathOnly ==
    /\ pc = "commit_existing" =>
         /\ Before("add_existing", "status")
         /\ Succeeded("status")
         /\ statusOut # ""
         /\ wikiDir.index # HeadContent(wikiDir.head)
    /\ Did("commit_existing") => Succeeded("status") /\ statusOut # ""
    /\ Did("push") => Succeeded("commit_existing")
    /\ Succeeded("status") /\ statusOut = "" =>
         /\ ~Did("commit_existing") /\ ~Did("push")
         /\ remote = startRemote
         /\ pc \in {"mark_success", "finally_chdir", "finally_cleanup",
                    "finally_credentials", "done"}
         /\ pc # "mark_success" => success
    /\ Did("commit_new") => Succeeded("add_new") /\ ~Did("status")

\* A run whose staged tree equalled HEAD has terminated without committing.
C6_Witness ==
    /\ Returned
    /\ Succeeded("status")
    /\ statusOut = ""
    /\ Did("write_files")

----------------------------------------------------------------------------
\* C7: a run that follows a successful run on unchanged data makes no commit
\* and no push, and leaves the remote history as the first run left it.
C7_SecondRunIsNoChange ==
    run > 1 /\ prevSuccess /\ ~dataChanged =>
        /\ ~Did("commit_new") /\ ~Did("commit_existing")
        /\ ~Did("push_force") /\ ~Did("push")
        /\ remote = startRemote

----------------------------------------------------------------------------
----------------------------------------------------------------------------
\* Operations of the existing-store path that write, stage, commit or push.
ExistingPublishOps ==
    {"generate_empty", "write_files", "read_json", "add_existing", "status",
     "commit_existing", "push"}

\* C9: on the existing-store path content generation, staging, commit and
\* push happen only after checkout of the resolved branch and then pull have
\* both succeeded, in that order; when the checkout or the pull fails the run
\* is failing and nothing is written, committed or pushed.
C9_PublishOnlyAfterCheckoutAndPull ==
    Succeeded("clone") =>
        /\ \A i \in DOMAIN ops :
             ops[i].op \in ExistingPublishOps =>
                /\ \E j, k \in 1..(i - 1) :
                     /\ j < k
                     /\ ops[j] = [op |-> "checkout", rc |-> 0]
                     /\ ops[k] = [op |-> "pull", rc |-> 0]
        /\ Did("pull") => Succeeded("checkout")
        /\ Failed("checkout") \/ Failed("pull") =>
             /\ err # NoErr
             /\ ~success
             /\ \A i \in DOMAIN ops : ops[i].op \notin ExistingPublishOps
             /\ remote = startRemote

\* A run whose pull failed after a successful checkout has terminated.
C9_Witness ==
    /\ Done
    /\ Succeeded("clone")
    /\ Succeeded("checkout")
    /\ Failed("pull")

----------------------------------------------------------------------------
\* The run is past the access guard.
PastGuard ==
    pc \notin {"start", "verify_token", "clean_stale", "read_repo", "check_access",
               "enable_wiki"}
    /\ err = NoErr

\* C10: the run passes the guard only if push and pull are both granted and
\* the wiki is enabled or was enabled by this run; a disabled wiki with admin
\* triggers exactly one enable call, whose failure fails the run; the enable
\* call is never made when the wiki is enabled; no git command addressed to
\* the remote is executed unless the guard passed.
C10_GuardPassesOnlyWithCapabilities ==
    /\ PastGuard \/ (\E i \in DOMAIN ops : ops[i].op \in RemoteGitOps) =>
         /\ repo.asked /\ repo.status = HttpOk
         /\ repo.push /\ repo.pull
         /\ repo.has_wiki \/ (repo.admin /\ Succeeded("api_patch"))
    /\ patched = Times("api_patch") /\ patched <= 1
    /\ patched = 1 => repo.asked /\ ~repo.has_wiki /\ repo.admin /\ repo.push /\ repo.pull
    /\ repo.asked /\ repo.has_wiki => patched = 0
    /\ repo.asked /\ repo.status = HttpOk /\ repo.push /\ repo.pull
         /\ ~repo.has_wiki /\ repo.admin /\ pc \notin {"check_access", "enable_wiki"}
         => patched = 1
    /\ Failed("api_patch") =>
         /\ err # NoErr
         /\ \A i \in DOMAIN ops : ops[i].op \notin RemoteGitOps

\* A run that enabled the wiki itself has reached the remote.
C10_Witness ==
    /\ repo.asked /\ ~repo.has_wiki /\ repo.admin
    /\ Succeeded("api_patch")
    /\ Succeeded("ls_remote")

----------------------------------------------------------------------------
\* The diagnostic the guard is to give for a failed GET, by cause.
ExpectedDiagnostic(status) ==
    IF status = 401 THEN "Token invalido o expirado"
    ELSE IF status = 403 THEN "Token sin permisos suficientes"
    ELSE IF status = 404 THEN "Repositorio no encontrado"
    ELSE "Error de API"

\* C11: a failure of the guard's remote call fails the run with a diagnostic
\* that names its cause: 401 the invalid credential, 403 the insufficient
\* scope, 404 the missing repository, and any other failure of the call,
\* a transport failure with no HTTP response included, the generic API error.
C11_GuardDiagnosticNamesCause ==
    failedAt = "api_get" /\ repo.status # HttpOk =>
        /\ ~success
        /\ err = WikiErr(ExpectedDiagnostic(repo.status))

----------------------------------------------------------------------------
CleanupOps == {"rm_stale", "rm_final", "rm_credentials"}

\* C12: a failing local cleanup (removal of the scratch directory or of the
\* credential file) is swallowed: it is never the error that leaves the
\* function, which is still the run's primary error, or none after success.
C12_CleanupErrorsNeverMask ==
    (\E i \in DOMAIN ops : ops[i].op \in CleanupOps /\ ops[i].rc # 0) =>
        /\ failedAt \notin CleanupOps
        /\ err.type \in {"none", "WikiGenerationError"}
        /\ Done /\ success => err = NoErr

----------------------------------------------------------------------------
\* C13: on the existing-store path the branch used is the remote's actual
\* default branch whenever the symbolic-ref probe succeeded, and the
\* conventional name main only when the probe failed; resolving the branch
\* never fails the run.
C13_ResolvedBranchIsRemoteDefault ==
    /\ Succeeded("resolve_branch") => default_branch = remote.default
    /\ Failed("resolve_branch") => default_branch = "main"
    /\ failedAt # "resolve_branch"

----------------------------------------------------------------------------
\* Vocabulary of the content properties

Activos == gen.docs.Activos.entries
Cerrados == gen.docs.Cerrados.entries

Occurs(entries, n) == Cardinality({j \in DOMAIN entries : entries[j].number = n})

\* Position in the input of the issue with number n.
Pos(n) == CHOOSE i \in DOMAIN gen.issues : gen.issues[i].number = n

InInputOrder(entries) ==
    \A j, k \in DOMAIN entries : j < k => Pos(entries[j].number) < Pos(entries[k].number)

\* The entry written for the issue with number n, on either page.
EntriesOf(n) ==
    {Activos[j] : j \in {x \in DOMAIN Activos : Activos[x].number = n}} \cup
    {Cerrados[j] : j \in {x \in DOMAIN Cerrados : Cerrados[x].number = n}}

\* C14: the active/closed partition is exhaustive and disjoint: once
\* generate_wiki_content has returned True, every input issue is on exactly
\* one of the two issue pages, the one of its state, and each page lists its
\* issues in input order.
C14_PartitionExhaustiveDisjoint ==
    gen.result = "True" =>
        /\ \A i \in DOMAIN gen.issues :
             LET n == gen.issues[i].number
             IN  /\ Occurs(Activos, n) + Occurs(Cerrados, n) = 1
                 /\ gen.issues[i].state = "open" => Occurs(Activos, n) = 1
                 /\ gen.issues[i].state = "closed" => Occurs(Cerrados, n) = 1
        /\ Len(Activos) + Len(Cerrados) = Len(gen.issues)
        /\ InInputOrder(Activos)
        /\ InInputOrder(Cerrados)

\* Both pages received an issue of a two-issue input.
C14_Witness ==
    /\ gen.result = "True"
    /\ Len(gen.issues) = 2
    /\ Len(Activos) = 1
    /\ Len(Cerrados) = 1

----------------------------------------------------------------------------
\* Shapes the normalizations do not recognize.
UnrecognizedLabels(l) ==
    \/ l.kind \in {"num", "dict"}
    \/ /\ l.kind = "list"
       /\ \E i, j \in DOMAIN l.items : l.items[i].kind # l.items[j].kind
UnrecognizedMilestone(m) == m.kind \notin {"absent", "str", "dict"} \/ m.text = NoKey

\* The call read its files, could write its documents and every milestone
\* record has a title: nothing but the shapes of issue fields is in play.
OnlyIssueShapesInPlay ==
    /\ gen.pc = "returned"
    /\ gen.result # "False"
    /\ gen.raised.type # "WikiGenerationError"
    /\ \A i \in DOMAIN gen.milestones : gen.milestones[i].title # NoKey

\* C15: malformed individual records never abort the run: whatever the shape
\* of an issue's labels or milestone field, rendering does not fail, an
\* unrecognized labels value gives no labels, an unrecognized milestone value
\* gives the placeholder title, and every other record is still rendered.
C15_MalformedRecordsNeverAbort ==
    OnlyIssueShapesInPlay =>
        /\ gen.result = "True"
        /\ err = NoErr
        /\ \A i \in DOMAIN gen.issues :
             /\ \E e \in EntriesOf(gen.issues[i].number) : e.complete
             /\ \A e \in EntriesOf(gen.issues[i].number) :
                  /\ UnrecognizedLabels(gen.issues[i].labels) => e.labels = <<>>
                  /\ UnrecognizedMilestone(gen.issues[i].milestone) =>
                         e.milestone = "Sin titulo"

----------------------------------------------------------------------------
\* The label shapes the claim lists and the labels each is to give.
StringList == PyList(<<PyStr("bug"), PyStr("ui")>>)
ObjectList == PyList(<<PyDict("bug")>>)
ListedLabelShapes == {Absent, PyList(<<>>), PyStr("bug"), StringList, ObjectList}
ExpectedLabels(l) ==
    CASE l = PyStr("bug") -> <<"bug">>
      [] l = StringList -> <<"bug", "ui">>
      [] l = ObjectList -> <<"bug">>
      [] OTHER -> <<>>

LabelsNormalized ==
    \A i \in DOMAIN gen.issues :
        LET l == gen.issues[i].labels
            out == format_labels(l)
        IN  l \in ListedLabelShapes =>
              /\ \A j \in DOMAIN out : out[j].kind = "str"
              /\ [j \in DOMAIN out |-> out[j].text] = ExpectedLabels(l)
              /\ l = StringList => out = l.items
              /\ \A e \in EntriesOf(gen.issues[i].number) :
                     e.complete /\ e.labels = ExpectedLabels(l)

\* C16: format_labels is total over the listed shapes: absent labels and the
\* empty list give no labels, the string "bug" gives ["bug"], a list of
\* strings gives that list, a list of objects {name: "bug"} gives ["bug"],
\* and the issue is written with exactly those labels; no step of the
\* generator changes the input records.
C16_LabelNormalizationTotal ==
    /\ []LabelsNormalized
    /\ [][gen'.issues = gen.issues /\ gen'.milestones = gen.milestones]_vars

\* An issue whose labels are a list of objects was written with the label bug.
C16_Witness ==
    /\ gen.result = "True"
    /\ \E i \in DOMAIN gen.issues :
         /\ gen.issues[i].labels = ObjectList
         /\ \E e \in EntriesOf(gen.issues[i].number) : e.labels = <<"bug">>

----------------------------------------------------------------------------
\* C17: a milestone record with no title is rejected before rendering
\* starts: the run fails and, when it does, none of the four documents has
\* been written or partially written.
C17_UntitledMilestoneRejectedBeforeRendering ==
    /\ \E i \in DOMAIN gen.milestones : gen.milestones[i].title = NoKey
    /\ gen.pc = "returned"
    /\ gen.raised.type # "WikiGenerationError"
    =>
    /\ err # NoErr
    /\ gen.docs = NoDocs

----------------------------------------------------------------------------
\* Every commit the remote holds, on any branch.
RemoteCommits ==
    UNION {{remote.heads[b][i] : i \in DOMAIN remote.heads[b]} : b \in Branches}

\* C18: the scratch directory is fresh for every run: once the run has cloned
\* into or initialized wiki_content, the directory was created by this run and
\* holds nothing left over, also when the start-of-run removal failed; no
\* leftover file is ever committed or pushed.
C18_ScratchDirectoryIsFresh ==
    /\ wikiDir.exists /\ (Succeeded("clone") \/ Did("git_init")) =>
           wikiDir.owner = run /\ ~wikiDir.tree.junk
    /\ \A c \in RemoteCommits : ~c.content.junk

----------------------------------------------------------------------------
\* The position of each operation of the try body in the fixed order
\* acquire/initialize, branch-select, generate, stage, commit, push.
StepRank(op) ==
    CASE op = "clone" -> 1
      [] op = "mkdir" -> 2
      [] op = "git_init" -> 3
      [] op = "remote_add" -> 4
      [] op = "resolve_branch" -> 5
      [] op = "checkout" -> 6
      [] op = "pull" -> 7
      [] op \in {"read_json", "generate_empty", "write_files"} -> 8
      [] op \in {"add_new", "add_existing"} -> 9
      [] op = "status" -> 10
      [] op \in {"commit_new", "commit_existing"} -> 11
      [] op = "branch_main" -> 12
      [] op \in {"push_force", "push"} -> 13
      [] OTHER -> 0

LastCommit(h) == h[Len(h)]

OtherBranchesUntouched(b) ==
    \A x \in Branches \ {b} : remote.heads[x] = startRemote.heads[x]

\* C19: within one run the steps follow the order acquire/initialize,
\* branch-select, generate, stage, commit, push, each at most once (every
\* step, when it is logged, ranks strictly above all that the run logged
\* before; the two commits share a rank, so the run makes at most one); a
\* push follows a successful commit of the same run; the commit is "Initial
\* wiki content" pushed to main on the new-store path and "Update wiki
\* content" pushed to the resolved branch on the existing path, one commit
\* on top of what the branch held.
C19_FixedOrderOneCommitOnePush ==
    /\ ops # <<>> /\ StepRank(ops[Len(ops)].op) > 0 =>
           \A i \in 1..(Len(ops) - 1) :
               StepRank(ops[i].op) < StepRank(ops[Len(ops)].op)
    /\ Did("push_force") => Succeeded("commit_new") /\ Before("commit_new", "push_force")
    /\ Did("push") => Succeeded("commit_existing") /\ Before("commit_existing", "push")
    /\ Succeeded("push_force") =>
           /\ Len(remote.heads["main"]) = 1
           /\ LastCommit(remote.heads["main"]).msg = "Initial wiki content"
           /\ OtherBranchesUntouched("main")
    /\ Succeeded("push") =>
           /\ Len(remote.heads[default_branch]) = Len(startRemote.heads[default_branch]) + 1
           /\ IsPrefix(startRemote.heads[default_branch], remote.heads[default_branch])
           /\ LastCommit(remote.heads[default_branch]).msg = "Update wiki content"
           /\ OtherBranchesUntouched(default_branch)

\* A second run updated, on the existing-store path, the branch main that the
\* first run created on the new-store path.
C19_Witness ==
    /\ run = 2
    /\ Done /\ success
    /\ Succeeded("push")
    /\ default_branch = "main"
    /\ Len(remote.heads["main"]) = 2
    /\ remote.heads["main"][1].msg = "Initial wiki content"
    /\ remote.heads["main"][2].msg = "Update wiki content"

----------------------------------------------------------------------------
\* The operations of the try body that must succeed for the run to go on.
CheckedOps ==
    {"verify_token", "api_get", "api_patch", "git_config", "ls_remote",
     "mkdir", "git_init", "remote_add", "read_json", "generate_empty",
     "write_files", "add_new", "commit_new", "branch_main", "push_force",
     "checkout", "pull", "add_existing", "status", "commit_existing", "push"}

\* C20: every failure inside the try body leaves generate_wiki_pages as a
\* WikiGenerationError and never as a success; the success flag is set only
\* after the whole new-store or existing-store branch completed without error.
C20_TryFailureLeavesAsWikiGenerationError ==
    /\ Done /\ Did("verify_token") /\ ~success => err.type = "WikiGenerationError"
    /\ (\E i \in DOMAIN ops : ops[i].op \in CheckedOps /\ ops[i].rc # 0) => ~success
    /\ success =>
           \/ Succeeded("push_force")
           \/ Succeeded("push")
           \/ Succeeded("status") /\ statusOut = ""

----------------------------------------------------------------------------
\* The run changed into wiki_content at some point (lines 124, 141).
WentIntoWikiDir == Succeeded("mkdir") \/ Did("resolve_branch")

\* C21: on every exit that entered the try block the working directory is
\* the original one again, and it is restored before the scratch directory
\* is removed: every removal, at the start of the run or in the finalizer,
\* is attempted from the original directory, never from inside wiki_content.
C21_WorkingDirectoryRestoredBeforeCleanup ==
    /\ Done /\ Did("verify_token") => cwd = "orig"
    /\ pc \in {"finally_cleanup", "finally_credentials"} => cwd = "orig"
    /\ ops # <<>> /\ ops[Len(ops)].op \in WorkspaceRemoveOps => cwd = "orig"
    /\ Did("rm_final") => cwd = "orig"

\* A failed run that had changed into wiki_content returned from the
\* original directory with the scratch directory removed.
C21_Witness ==
    /\ Done
    /\ ~success
    /\ WentIntoWikiDir
    /\ Succeeded("rm_final")
    /\ ~wikiDir.exists
    /\ cwd = "orig"

====
